---- MODULE Spec2Model ----
(***************************************************************************)
(* Midiclock (src/main.rs): a MIDI clock generator.  The front-end         *)
(* (MyApp::update, once per frame) writes two shared atomic cells, the     *)
(* tempo `bpm` and the port selection `sharedmidiport`; the clock thread   *)
(* spawned by main polls both on every loop iteration, keeps one output    *)
(* connection and sends one 0xF8 byte per tick.                            *)
(*                                                                         *)
(* Time is counted in microseconds.  The clock thread's time `now` moves   *)
(* only while the thread sleeps (the computing time of the other           *)
(* statements is taken as 0).  The wait for a tick may overrun; an overrun *)
(* of the idle or backoff sleep is just a longer stop and is not drawn.    *)
(* The front-end's Instant values are not kept: the time elapsed between   *)
(* two Space presses is an input of the frame.                             *)
(***************************************************************************)
EXTENDS Integers, Sequences, FiniteSets, TLC

VARIABLES
    outports,        \* main: the ports enumerated once at startup (their indices)
    bpm,             \* main: Arc<AtomicI32>, the shared tempo cell
    sharedmidiport,  \* main: Arc<AtomicUsize>, the shared port selection cell
    last_press,      \* MyApp.last_press: Option<Instant>
    current_index,   \* MyApp.current_index
    pc,              \* clock thread: position in the loop body
    val,             \* clock thread: tempo read at line 47
    indval,          \* clock thread: selection read at line 48
    conn_out,        \* clock thread: Option<MidiOutputConnection> (the port it is to)
    oldval,          \* clock thread: last successfully connected index
    next_tick,       \* clock thread: the scheduled time of the next pulse
    res,             \* clock thread: the Result of connect() being matched
    now,             \* the clock thread's Instant::now()
    present,         \* environment: ports whose device can be opened
    open,            \* environment: ports this process holds an open connection to
    broken,          \* environment: open connections whose device went away
    frames,          \* number of front-end frames that handled an input
    envSteps,        \* number of device removals / returns so far
    log,             \* history: what the current loop iteration did, in order
    prev,            \* history: what the previous loop iteration did
    snap,            \* history: oldval and conn_out when the current iteration began
    sent,            \* history: every pulse transmission so far
    lost,            \* history: a connection broke after it had carried a pulse
    reselect,        \* history: after `lost`, the front-end selected an openable port
    armed,           \* history: the current iteration read the selection after `reselect`
    tap              \* history of the front-end alone: the last frame's tap, if
                     \* Space and nothing else was pressed in it

vars == <<outports, bpm, sharedmidiport, last_press, current_index, pc, val,
          indval, conn_out, oldval, next_tick, res, now, present, open, broken,
          frames, envSteps, log, prev, snap, sent, lost, reselect, armed, tap>>

---------------------------------------------------------------------------
\* Bounds of the model.
MaxDevices == 3          \* at most this many enumerated ports
MaxFrames == 2           \* front-end frames with input
MaxEnv == 2              \* device removals / returns
MaxPulses == 2           \* pulse transmissions
MaxTime == 1000000       \* horizon of the clock thread, microseconds
Late == 3000             \* the wait for a tick overruns by 0 or by this many microseconds

\* Program constants.
UsizeMax == 2147483647   \* stands for usize::MAX: larger than every port index
InitialBpm == 0
InitialPort == 1
MinBpm == 40
MaxBpm == 300
BigStep == 10
MaxBpmBigStep == 290
MinBpmBigStep == 50
BackoffSecs == 1
IdleMillis == 500
PulsesPerBeat == 24
ClockByte == 248         \* 0xF8

None == <<>>
Some(x) == <<x>>
Unwrap(o) == o[1]

Keys == {"Space", "ArrowUp", "ArrowRight", "ArrowDown", "ArrowLeft"}
\* Microseconds between two Space presses: 0 (same instant), 301, 300, 40 and 39 BPM.
TapElapsed == {0, 199300, 200000, 1500000, 1540000}
Lateness == {0, Late}

---------------------------------------------------------------------------
\* Front-end: MyApp::update.

\* (60.0 / interval_secs).round(): round half away from zero, elapsed in microseconds.
TapBpm(elapsed) == (120000000 + elapsed) \div (2 * elapsed)

\* The Space handler with the range test exclusive at both ends.
AfterTapExclusive(b, keys, elapsed) ==
    IF "Space" \in keys /\ last_press # None /\ elapsed > 0
          /\ TapBpm(elapsed) > MinBpm /\ TapBpm(elapsed) < MaxBpm
    THEN TapBpm(elapsed) ELSE b

\* Lines 140-153: the tempo cell after the Space handler.
AfterTap(b, keys, elapsed) ==
    IF "Space" \in keys /\ last_press # None /\ elapsed > 0
          /\ TapBpm(elapsed) >= MinBpm /\ TapBpm(elapsed) <= MaxBpm
    THEN TapBpm(elapsed) ELSE b

\* ArrowUp without its guard.
AfterUpUnclamped(b, keys) == IF "ArrowUp" \in keys THEN b + 1 ELSE b

\* Lines 155-161.
AfterUp(b, keys) == IF "ArrowUp" \in keys /\ b < MaxBpm THEN b + 1 ELSE b
\* Lines 163-169.
AfterRight(b, keys) == IF "ArrowRight" \in keys /\ b <= MaxBpmBigStep THEN b + BigStep ELSE b
\* Lines 171-177.
AfterDown(b, keys) == IF "ArrowDown" \in keys /\ b > MinBpm THEN b - 1 ELSE b

\* ArrowLeft guarded by the step instead of the floor: it can reach 0.
AfterLeftToZero(b, keys) == IF "ArrowLeft" \in keys /\ b >= BigStep THEN b - BigStep ELSE b

\* Lines 179-185.
AfterLeft(b, keys) == IF "ArrowLeft" \in keys /\ b >= MinBpmBigStep THEN b - BigStep ELSE b

\* Lines 140-185: every store of the frame goes to the cell at once, so the cell
\* ends the frame holding the value of the local `bpm`.
AfterKeys(b, keys, elapsed) ==
    AfterLeft(AfterDown(AfterRight(AfterUp(AfterTap(b, keys, elapsed), keys), keys), keys), keys)

\* The dropdown without skip(1): entry 0 can be clicked too.
SelectableFromZero == {i \in 0 .. Len(outports) - 1 : i >= 0}

\* Line 207: the entries of the dropdown, enumerate().skip(1).
Selectable == {i \in 0 .. Len(outports) - 1 : i >= 1}

\* One frame: the keys pressed in it, the time since the last Space press, and
\* the dropdown entry clicked (None: no click).
Update(keys, elapsed, click) ==
    /\ bpm' = AfterKeys(bpm, keys, elapsed)
    /\ last_press' = IF "Space" \in keys THEN Some("Instant") ELSE last_press
    /\ IF click # None
       THEN /\ current_index' = Unwrap(click)
            /\ sharedmidiport' = Unwrap(click)
            /\ reselect' = (reselect \/ (lost /\ Unwrap(click) \in present))
       ELSE UNCHANGED <<current_index, sharedmidiport, reselect>>
    /\ UNCHANGED <<outports, pc, val, indval, conn_out, oldval, next_tick, res, now,
                   present, open, broken, envSteps, log, prev, snap, sent, lost, armed>>

\* The inputs of a frame: the elapsed time is read only when Space is pressed.
FrameInputs(keysets) ==
    {in \in [keys : keysets, elapsed : TapElapsed,
             click : {None} \cup {Some(i) : i \in Selectable}] :
        "Space" \notin in.keys => in.elapsed = 0}

\* Frames running beside the clock thread: one key or one click per frame.  A
\* frame that changes nothing is a stuttering step.
FrontEnd ==
    /\ frames < MaxFrames
    /\ frames' = frames + 1
    /\ \E in \in FrameInputs({k \in SUBSET Keys : Cardinality(k) <= 1}) :
          /\ in.keys = {} \/ in.click = None
          /\ Update(in.keys, in.elapsed, in.click)
    /\ <<bpm, last_press, current_index, sharedmidiport, reselect>>'
          # <<bpm, last_press, current_index, sharedmidiport, reselect>>
    /\ UNCHANGED tap

\* The front-end alone: any number of frames, any combination of keys in a frame.
\* It records what a frame with Space alone found: the elapsed time, whether it
\* was the first tap, and the tempo before it.
FrontEndAlone ==
    /\ \E in \in FrameInputs(SUBSET Keys) :
          /\ Update(in.keys, in.elapsed, in.click)
          /\ tap' = IF in.keys = {"Space"} /\ in.click = None
                    THEN Some([elapsed |-> in.elapsed, first |-> last_press = None,
                               before |-> bpm])
                    ELSE None
    /\ UNCHANGED frames

---------------------------------------------------------------------------
\* Environment: the devices behind the enumerated ports.

\* The device of port d goes away; a connection open to it stops carrying data.
Unplug(d) ==
    /\ envSteps < MaxEnv
    /\ d \in present
    /\ envSteps' = envSteps + 1
    /\ present' = present \ {d}
    /\ broken' = IF d \in open THEN broken \cup {d} ELSE broken
    /\ lost' = (lost \/ (d \in open /\ sent # <<>> /\ sent[Len(sent)].ok
                           /\ sent[Len(sent)].port = d))
    /\ reselect' = FALSE
    /\ armed' = FALSE
    /\ UNCHANGED <<outports, bpm, sharedmidiport, last_press, current_index, pc, val,
                   indval, conn_out, oldval, next_tick, res, now, open, frames, log,
                   prev, snap, sent, tap>>

\* The device of port d comes back; a connection that broke stays broken.
Replug(d) ==
    /\ envSteps < MaxEnv
    /\ d \notin present
    /\ envSteps' = envSteps + 1
    /\ present' = present \cup {d}
    /\ UNCHANGED <<outports, bpm, sharedmidiport, last_press, current_index, pc, val,
                   indval, conn_out, oldval, next_tick, res, now, open, broken, frames,
                   log, prev, snap, sent, lost, reselect, armed, tap>>

Environment == \E d \in 1 .. Len(outports) - 1 : Unplug(d) \/ Replug(d)

---------------------------------------------------------------------------
\* The clock thread: the loop of lines 46-88, one action per position.

\* An entry of the iteration log: what was done, to which port, whether it
\* succeeded, and the time when it was over.
Event(kind, port, ok, at) == [kind |-> kind, port |-> port, ok |-> ok, at |-> at]
NoPort == 0 - 1

frontEndVars == <<bpm, sharedmidiport, last_press, current_index, frames, tap>>
historyVars == <<prev, snap, sent, lost, reselect, armed>>

\* Line 75-76: interval_ms = 60000.0 / (val * 24.0), as a Duration in microseconds.
Interval(v) == (60000 * 1000) \div (v * PulsesPerBeat)

\* The tempo read once: an iteration keeps the tempo it has unless that is 0.
LoadBpmOnce ==
    /\ pc = "load_bpm"
    /\ val' = IF val # 0 THEN val ELSE bpm
    /\ pc' = "load_port"
    /\ prev' = log
    /\ log' = <<>>
    /\ snap' = [oldval |-> oldval, conn |-> conn_out]
    /\ UNCHANGED <<outports, frontEndVars, indval, conn_out, oldval, next_tick, res, now,
                   present, open, broken, envSteps, sent, lost, reselect, armed>>

\* The tempo taken out of the cell: a swap with 0 instead of a load.
LoadBpmSwap ==
    /\ pc = "load_bpm"
    /\ val' = bpm
    /\ bpm' = 0
    /\ pc' = "load_port"
    /\ prev' = log
    /\ log' = <<>>
    /\ snap' = [oldval |-> oldval, conn |-> conn_out]
    /\ UNCHANGED <<outports, sharedmidiport, last_press, current_index, frames, tap,
                   indval, conn_out, oldval, next_tick, res, now,
                   present, open, broken, envSteps, sent, lost, reselect, armed>>

\* Line 47.
LoadBpm ==
    /\ pc = "load_bpm"
    /\ val' = bpm
    /\ pc' = "load_port"
    /\ prev' = log
    /\ log' = <<>>
    /\ snap' = [oldval |-> oldval, conn |-> conn_out]
    /\ UNCHANGED <<outports, frontEndVars, indval, conn_out, oldval, next_tick, res, now,
                   present, open, broken, envSteps, sent, lost, reselect, armed>>

\* Line 48.
LoadPort ==
    /\ pc = "load_port"
    /\ indval' = sharedmidiport
    /\ armed' = reselect
    /\ pc' = "check"
    /\ UNCHANGED <<outports, frontEndVars, val, conn_out, oldval, next_tick, res, now,
                   present, open, broken, envSteps, log, prev, snap, sent, lost, reselect>>

\* The connection check that overlooks a change of the selection.
NeedsReconnectOnlyIfLost == conn_out = None

\* Line 51: reconnect only if the port changed or there is no connection.
NeedsReconnect == indval # oldval \/ conn_out = None

\* The bounds check off by one.
InBoundsOffByOne == indval <= Len(outports)

\* Line 53.
InBounds == indval < Len(outports)

\* The old connection forgotten without being closed.
DroppedStaysOpen == [open |-> open, broken |-> broken, log |-> log]

\* Line 52: `conn_out = None` drops the connection held, which closes it.
Dropped ==
    IF conn_out = None
    THEN [open |-> open, broken |-> broken, log |-> log]
    ELSE [open |-> open \ {Unwrap(conn_out)},
          broken |-> broken \ {Unwrap(conn_out)},
          log |-> Append(log, Event("close", Unwrap(conn_out), TRUE, now))]

\* Lines 51-55: the connection check, the bounds check and MidiOutput::connect,
\* which succeeds when the device of the port can be opened.
Reconnect ==
    /\ pc = "check"
    /\ IF NeedsReconnect
       THEN /\ conn_out' = None
            /\ broken' = Dropped.broken
            /\ IF InBounds
               THEN /\ res' = (indval \in present)
                    /\ open' = IF indval \in present THEN Dropped.open \cup {indval}
                               ELSE Dropped.open
                    /\ log' = Append(Dropped.log,
                                     Event("open", indval, indval \in present, now))
                    /\ pc' = "match"
               ELSE /\ open' = Dropped.open
                    /\ log' = Dropped.log
                    /\ pc' = "gate"
                    /\ UNCHANGED res
       ELSE /\ pc' = "gate"
            /\ UNCHANGED <<conn_out, open, broken, log, res>>
    /\ UNCHANGED <<outports, frontEndVars, val, indval, oldval, next_tick, now,
                   present, envSteps, historyVars>>

\* The Ok arm that keeps the connection but does not record its index.
MatchOkForgetsIndex ==
    /\ pc = "match"
    /\ res
    /\ conn_out' = Some(indval)
    /\ open' = IF conn_out = None \/ conn_out = Some(indval) THEN open
               ELSE open \ {Unwrap(conn_out)}
    /\ pc' = "gate"
    /\ UNCHANGED <<outports, frontEndVars, val, indval, oldval, next_tick, res, now,
                   present, broken, envSteps, log, historyVars>>

\* Lines 56-59: Ok(c).  Assigning conn_out drops the connection it held, if any.
MatchOk ==
    /\ pc = "match"
    /\ res
    /\ conn_out' = Some(indval)
    /\ open' = IF conn_out = None \/ conn_out = Some(indval) THEN open
               ELSE open \ {Unwrap(conn_out)}
    /\ oldval' = indval
    /\ pc' = "gate"
    /\ UNCHANGED <<outports, frontEndVars, val, indval, next_tick, res, now, present,
                   broken, envSteps, log, historyVars>>

\* The Err arm recording the index it failed to open.
MatchErrRecordsIndex ==
    /\ pc = "match"
    /\ ~res
    /\ now + BackoffSecs * 1000000 <= MaxTime
    /\ conn_out' = None
    /\ oldval' = indval
    /\ now' = now + BackoffSecs * 1000000
    /\ log' = Append(log, Event("backoff", NoPort, TRUE, now + BackoffSecs * 1000000))
    /\ pc' = "load_bpm"
    /\ UNCHANGED <<outports, frontEndVars, val, indval, next_tick, res, present,
                   open, broken, envSteps, historyVars>>

\* Lines 60-65: Err(e): no connection, sleep one second, continue.
MatchErr ==
    /\ pc = "match"
    /\ ~res
    /\ now + BackoffSecs * 1000000 <= MaxTime
    /\ conn_out' = None
    /\ now' = now + BackoffSecs * 1000000
    /\ log' = Append(log, Event("backoff", NoPort, TRUE, now + BackoffSecs * 1000000))
    /\ pc' = "load_bpm"
    /\ UNCHANGED <<outports, frontEndVars, val, indval, oldval, next_tick, res, present,
                   open, broken, envSteps, historyVars>>

\* The gate that looks at the connection only and lets tempo 0 through.
PaceIgnoresTempo(late) ==
    /\ pc = "gate"
    /\ IF conn_out = None
       THEN /\ late = 0
            /\ now + IdleMillis * 1000 <= MaxTime
            /\ now' = now + IdleMillis * 1000
            /\ log' = Append(log, Event("idle", NoPort, TRUE, now + IdleMillis * 1000))
            /\ pc' = "load_bpm"
       ELSE /\ IF now < next_tick
               THEN /\ next_tick + late <= MaxTime
                    /\ now' = next_tick + late
                    /\ log' = Append(log, Event("wait", NoPort, late = 0, next_tick + late))
               ELSE /\ late = 0
                    /\ UNCHANGED <<now, log>>
            /\ pc' = "send"
    /\ UNCHANGED <<outports, frontEndVars, val, indval, conn_out, oldval, next_tick, res,
                   present, open, broken, envSteps, historyVars>>

\* Lines 70-81: tempo 0 or no connection: sleep 500 ms, continue; otherwise
\* sleep until next_tick if it is still ahead (the sleep may overrun by `late`).
Pace(late) ==
    /\ pc = "gate"
    /\ IF val = 0 \/ conn_out = None
       THEN /\ late = 0
            /\ now + IdleMillis * 1000 <= MaxTime
            /\ now' = now + IdleMillis * 1000
            /\ log' = Append(log, Event("idle", NoPort, TRUE, now + IdleMillis * 1000))
            /\ pc' = "load_bpm"
       ELSE /\ IF now < next_tick
               THEN /\ next_tick + late <= MaxTime
                    /\ now' = next_tick + late
                    /\ log' = Append(log, Event("wait", NoPort, late = 0, next_tick + late))
               ELSE /\ late = 0
                    /\ UNCHANGED <<now, log>>
            /\ pc' = "send"
    /\ UNCHANGED <<outports, frontEndVars, val, indval, conn_out, oldval, next_tick, res,
                   present, open, broken, envSteps, historyVars>>

\* The wait of this iteration, if there was one, did not overrun.
OnTime == \A i \in 1 .. Len(log) : log[i].kind = "wait" => log[i].ok

\* conn.send succeeds while the connection is open and its device is there.
Delivered == conn_out # None /\ Unwrap(conn_out) \in open \ broken

\* The pulse step that restarts the schedule from the time of the send.
PulseFromNow ==
    /\ pc = "send"
    /\ Len(sent) < MaxPulses
    /\ IF conn_out # None
       THEN /\ sent' = Append(sent, [at |-> now, due |-> next_tick, bpm |-> val,
                                     port |-> Unwrap(conn_out), ok |-> Delivered,
                                     byte |-> ClockByte, ontime |-> OnTime])
            /\ log' = Append(log, Event("send", Unwrap(conn_out), Delivered, now))
       ELSE UNCHANGED <<sent, log>>
    /\ next_tick' = now + Interval(val)
    /\ pc' = "load_bpm"
    /\ UNCHANGED <<outports, frontEndVars, val, indval, conn_out, oldval, res, now,
                   present, open, broken, envSteps, prev, snap, lost, reselect, armed>>

\* The pulse step that takes the interval from the tempo cell as it is now.
PulseIntervalFromCell ==
    /\ pc = "send"
    /\ Len(sent) < MaxPulses
    /\ IF conn_out # None
       THEN /\ sent' = Append(sent, [at |-> now, due |-> next_tick, bpm |-> val,
                                     port |-> Unwrap(conn_out), ok |-> Delivered,
                                     byte |-> ClockByte, ontime |-> OnTime])
            /\ log' = Append(log, Event("send", Unwrap(conn_out), Delivered, now))
       ELSE UNCHANGED <<sent, log>>
    /\ next_tick' = next_tick + Interval(bpm)
    /\ pc' = "load_bpm"
    /\ UNCHANGED <<outports, frontEndVars, val, indval, conn_out, oldval, res, now,
                   present, open, broken, envSteps, prev, snap, lost, reselect, armed>>

\* Lines 83-87: send the clock byte (the result is dropped) and move next_tick
\* on by one interval.
Pulse ==
    /\ pc = "send"
    /\ Len(sent) < MaxPulses
    /\ IF conn_out # None
       THEN /\ sent' = Append(sent, [at |-> now, due |-> next_tick, bpm |-> val,
                                     port |-> Unwrap(conn_out), ok |-> Delivered,
                                     byte |-> ClockByte, ontime |-> OnTime])
            /\ log' = Append(log, Event("send", Unwrap(conn_out), Delivered, now))
       ELSE UNCHANGED <<sent, log>>
    /\ next_tick' = next_tick + Interval(val)
    /\ pc' = "load_bpm"
    /\ UNCHANGED <<outports, frontEndVars, val, indval, conn_out, oldval, res, now,
                   present, open, broken, envSteps, prev, snap, lost, reselect, armed>>

Scheduler ==
    \/ LoadBpm
    \/ LoadPort
    \/ Reconnect
    \/ MatchOk
    \/ MatchErr
    \/ \E late \in Lateness : Pace(late)
    \/ Pulse

---------------------------------------------------------------------------
\* Lines 19-44: the state when the clock thread is about to enter its loop, for
\* a non-empty list of ports (with an empty one main returns at line 24).  Every
\* enumerated device is there; val, indval and res are not assigned yet and are
\* written before they are read.
Init ==
    /\ outports \in {[i \in 1 .. n |-> i - 1] : n \in 1 .. MaxDevices}
    /\ bpm = InitialBpm
    /\ sharedmidiport = InitialPort
    /\ last_press = None
    /\ current_index = 0
    /\ pc = "load_bpm"
    /\ val = 0
    /\ indval = 0
    /\ conn_out = None
    /\ oldval = UsizeMax
    /\ next_tick = 0
    /\ res = FALSE
    /\ now = 0
    /\ present = {i \in 0 .. MaxDevices : i < Len(outports)}
    /\ open = {}
    /\ broken = {}
    /\ frames = 0
    /\ envSteps = 0
    /\ log = <<>>
    /\ prev = <<>>
    /\ snap = [oldval |-> UsizeMax, conn |-> None]
    /\ sent = <<>>
    /\ lost = FALSE
    /\ reselect = FALSE
    /\ armed = FALSE
    /\ tap = None

Next == FrontEnd \/ Scheduler \/ Environment

Spec == Init /\ [][Next]_vars

\* The front-end with the clock thread and the devices left as they start.
SpecFrontEnd == Init /\ [][FrontEndAlone]_vars

---------------------------------------------------------------------------
\* Properties.

Last(q) == q[Len(q)]
Kinds(q) == {q[i].kind : i \in 1 .. Len(q)}
OpenFailed(q) == \E i \in 1 .. Len(q) : q[i].kind = "open" /\ ~q[i].ok

\* `log`, `snap` and `indval` describe one and the same iteration, which is past
\* its connect step (at "load_bpm" they describe the iteration just finished).
PastConnect ==
    \/ pc \in {"match", "gate", "send"}
    \/ pc = "load_bpm" /\ log # <<>>

\* C1: the tempo cell always holds 0 or a value in [40, 300].
C1_TempoInDomain == bpm = 0 \/ (bpm >= MinBpm /\ bpm <= MaxBpm)

\* C2: two consecutive pulses sent at the same tempo on the same live
\* connection, neither after a wait that overran, are at least one tick
\* interval apart (no burst of pulses after time spent idle or backing off).
C2_NoBurst ==
    \A i \in 1 .. Len(sent) - 1 :
        (/\ sent[i].bpm = sent[i + 1].bpm
         /\ sent[i].port = sent[i + 1].port
         /\ sent[i].ok /\ sent[i + 1].ok
         /\ sent[i].ontime /\ sent[i + 1].ontime)
        => sent[i + 1].at - sent[i].at >= Interval(sent[i].bpm)

\* C3: the iteration after a failed pulse transmission closes the connection
\* and tries to open the selected port again.
C3_SendFailureRepaired ==
    (PastConnect /\ prev # <<>> /\ Last(prev).kind = "send" /\ ~Last(prev).ok)
    => {"close", "open"} \subseteq Kinds(log)

\* C4: after the connected device went away while ticking and the front-end
\* then selected an in-bounds port whose device can be opened (and stays so),
\* a pulse sent by an iteration that read that selection is delivered.
C4_ReselectRestores ==
    (/\ pc = "load_bpm" /\ log # <<>> /\ Last(log).kind = "send"
     /\ armed /\ indval \in present)
    => Last(log).ok

\* C5: an iteration that reads an in-bounds selection B while connected to a
\* different port A first closes A and then tries to open B, whatever the tempo.
C5_ReconnectOnChange ==
    (/\ PastConnect
     /\ snap.conn # None
     /\ indval # Unwrap(snap.conn)
     /\ indval < Len(outports))
    => /\ Len(log) >= 2
       /\ log[1].kind = "close" /\ log[1].port = Unwrap(snap.conn)
       /\ log[2].kind = "open" /\ log[2].port = indval
       /\ Unwrap(snap.conn) \notin open

\* C5 witness: the reconnection from port 1 to port 2 done with the tempo at 0.
C5_Witness ==
    /\ pc = "match" /\ val = 0
    /\ snap.conn = Some(1) /\ indval = 2
    /\ Len(log) = 2 /\ log[2].kind = "open"

\* C6: at most one connection is open at any time, and an iteration that began
\* with a connection closes it before it makes a connect attempt.
C6_AtMostOneConnection ==
    /\ Cardinality(open) <= 1
    /\ \A i \in 1 .. Len(log) :
          (log[i].kind = "open" /\ snap.conn # None)
          => \E j \in 1 .. i - 1 :
                log[j].kind = "close" /\ log[j].port = Unwrap(snap.conn)

\* C6 witness: a new connection was opened right after the old one was closed.
C6_Witness ==
    /\ pc = "match" /\ res
    /\ Len(log) = 2 /\ log[1].kind = "close" /\ log[2].kind = "open"
    /\ open = {indval} /\ log[1].port # indval

\* C7: no connect attempt is ever made for port 0.
C7_NeverOpensPortZero ==
    /\ 0 \notin open
    /\ \A i \in 1 .. Len(log) : log[i].kind = "open" => log[i].port # 0
    /\ pc = "match" => indval # 0

\* C7 witness: a connect attempt was made after the front-end selected a port.
C7_Witness ==
    /\ pc = "match" /\ frames > 0 /\ current_index # 0
    /\ Last(log).kind = "open" /\ Last(log).port = current_index

\* C8: the port selection is always a valid index of the enumerated ports.
C8_SelectionInBounds == sharedmidiport >= 0 /\ sharedmidiport < Len(outports)

\* C9: an iteration that reads an out-of-bounds selection ends up with no
\* connection, makes no connect attempt, does not back off and sends nothing:
\* it takes the idle sleep.
C9_OutOfBoundsIdles ==
    (PastConnect /\ indval >= Len(outports))
    => /\ conn_out = None /\ open = {}
       /\ Kinds(log) \subseteq {"close", "idle"}
       /\ pc \in {"gate", "load_bpm"}
       /\ pc = "load_bpm" =>
             /\ Last(log).kind = "idle"
             /\ Last(log).at = now
             /\ \A i \in 1 .. Len(log) - 1 : log[i].kind = "close"

\* C9 witness: the second idle iteration in a row on an out-of-bounds selection.
C9_Witness ==
    /\ pc = "load_bpm" /\ indval >= Len(outports)
    /\ Kinds(log) = {"idle"} /\ Kinds(prev) = {"idle"}

\* C10: an iteration whose open failed ends with no connection, the recorded
\* index unchanged and no pulse sent, after sleeping one second; and the
\* iteration after it tries the open again.
C10_OpenFailureBacksOff ==
    /\ (pc = "load_bpm" /\ OpenFailed(log))
       => /\ conn_out = None /\ open = {}
          /\ oldval = snap.oldval
          /\ "send" \notin Kinds(log) /\ "idle" \notin Kinds(log)
          /\ Last(log).kind = "backoff"
          /\ log[Len(log) - 1].kind = "open"
          /\ Last(log).at - log[Len(log) - 1].at = BackoffSecs * 1000000
          /\ now = Last(log).at
    /\ (PastConnect /\ OpenFailed(prev) /\ indval < Len(outports))
       => \E i \in 1 .. Len(log) : log[i].kind = "open" /\ log[i].port = indval

\* C10 witness: the open failed, the thread backed off, and the next iteration's
\* open failed again.
C10_Witness ==
    /\ pc = "match" /\ ~res
    /\ OpenFailed(prev) /\ Last(prev).kind = "backoff"
    /\ OpenFailed(log)


\* C11: the pulse step is reached, and a pulse is sent, only in an iteration
\* that read a non-zero tempo and holds a connection; while the tempo cell is
\* still 0 nothing has been sent; every message sent is the one byte 0xF8.
C11_PulseOnlyWhenPlaying ==
    /\ pc = "send" => val # 0 /\ conn_out # None /\ Unwrap(conn_out) \in open
    /\ \A i \in 1 .. Len(sent) : sent[i].bpm # 0 /\ sent[i].byte = 248
    /\ \A i \in 1 .. Len(log) :
          log[i].kind = "send" => val # 0 /\ conn_out = Some(log[i].port)
    /\ bpm = 0 => sent = <<>>

\* A pulse has just been sent, in an iteration that read a non-zero tempo.
C11_Witness ==
    /\ pc = "load_bpm"
    /\ log # <<>>
    /\ Last(log).kind = "send"
    /\ sent # <<>>
    /\ Last(sent).bpm # 0
    /\ Last(sent).byte = 248


\* 60 / elapsed seconds lies in [b - 1/2, b + 1/2): it rounds to b.
RoundsTo(elapsed, b) ==
    (2 * b - 1) * elapsed <= 120000000 /\ 120000000 < (2 * b + 1) * elapsed

\* C13: a frame with Space alone changes the tempo only if there was a tap
\* before, the time since it is positive and 60 / seconds rounds to a value in
\* [40, 300], which is then the tempo; a first tap and a tap that rounds to 39
\* or to 301 leave the tempo as it was; one that rounds to 40 or 300 stores it.
C13_TapStoresInRangeOnly ==
    tap # None =>
        LET t == Unwrap(tap) IN
        /\ t.first => bpm = t.before
        /\ t.elapsed <= 0 => bpm = t.before
        /\ bpm # t.before =>
              /\ ~t.first
              /\ t.elapsed > 0
              /\ bpm >= 40 /\ bpm <= 300
              /\ RoundsTo(t.elapsed, bpm)
        /\ \A b \in {39, 301} :
              t.elapsed > 0 /\ RoundsTo(t.elapsed, b) => bpm = t.before
        /\ \A b \in {40, 300} :
              ~t.first /\ t.elapsed > 0 /\ RoundsTo(t.elapsed, b) => bpm = b

\* A second tap 200 ms after the first has replaced another tempo by 300.
C13_Witness ==
    /\ tap # None
    /\ ~Unwrap(tap).first
    /\ Unwrap(tap).elapsed = 200000
    /\ Unwrap(tap).before # 300
    /\ bpm = 300


\* The first k pulses were all sent at the tempo of the first.
SameTempo(k) == \A i \in 1 .. k : sent[i].bpm = sent[1].bpm

\* C14: with a constant tempo the tick time of the k-th pulse is the tick time
\* of the first plus k - 1 intervals, and the tick time scheduled next is one
\* interval after the last, however late the pulses themselves were sent.
C14_ScheduleAdvancesByInterval ==
    /\ \A k \in 1 .. Len(sent) :
          SameTempo(k) =>
              /\ sent[k].due = sent[1].due + (k - 1) * Interval(sent[1].bpm)
              /\ sent[k].at >= sent[k].due
    /\ sent # <<>> /\ SameTempo(Len(sent)) =>
          next_tick = sent[1].due + Len(sent) * Interval(sent[1].bpm)

\* The second pulse of a constant tempo was sent late, and the tick after it
\* is still two intervals after the first.
C14_Witness ==
    /\ Len(sent) = 2
    /\ SameTempo(2)
    /\ ~sent[2].ontime
    /\ sent[2].at > sent[2].due
    /\ sent[2].due = sent[1].due + Interval(sent[1].bpm)
    /\ next_tick = sent[1].due + 2 * Interval(sent[1].bpm)


\* C15: an iteration starts by copying the tempo cell, then the selection cell,
\* as they are at that moment; the connection check comes only after both
\* loads, and no other step of the clock thread changes the copies.
C15_ReadsBothCellsAfresh ==
    [][/\ pc = "load_bpm" /\ pc' # pc => pc' = "load_port" /\ val' = bpm
       /\ pc = "load_port" /\ pc' # pc => pc' = "check" /\ indval' = sharedmidiport
       /\ pc' = "check" /\ pc' # pc => pc = "load_port"
       /\ pc' = "load_port" /\ pc' # pc => pc = "load_bpm"
       /\ pc # "load_bpm" => val' = val
       /\ pc # "load_port" => indval' = indval]_vars

\* A later iteration is at its connection check holding a tempo and a
\* selection that the front-end wrote after the clock thread had started.
C15_Witness ==
    /\ pc = "check"
    /\ prev # <<>>
    /\ frames = 2
    /\ val # InitialBpm
    /\ val = bpm
    /\ indval # InitialPort
    /\ indval = sharedmidiport


\* C16: when a pulse is sent at another tempo than the pulse before it, its
\* tick time is still the one fixed with the previous tempo, it is not sent
\* before that time, and the interval of the new tempo runs from its tick time
\* to the next.
C16_TempoChangeKeepsScheduledTick ==
    /\ \A i \in 1 .. Len(sent) - 1 :
          sent[i + 1].bpm # sent[i].bpm =>
              /\ sent[i + 1].due = sent[i].due + Interval(sent[i].bpm)
              /\ sent[i + 1].at >= sent[i + 1].due
    /\ sent # <<>> => next_tick = Last(sent).due + Interval(Last(sent).bpm)
    /\ pc = "send" /\ sent # <<>> =>
          /\ next_tick = Last(sent).due + Interval(Last(sent).bpm)
          /\ now >= next_tick

\* The second pulse was sent at a new tempo after waiting for the tick time
\* fixed with the old one, and the next tick is one new interval later.
C16_Witness ==
    /\ Len(sent) = 2
    /\ sent[2].bpm # sent[1].bpm
    /\ sent[2].due = sent[1].due + Interval(sent[1].bpm)
    /\ sent[2].at >= sent[2].due
    /\ sent[2].at > sent[1].at
    /\ next_tick = sent[2].due + Interval(sent[2].bpm)


\* The state of the clock thread proper.
schedulerVars == <<pc, val, indval, conn_out, oldval, next_tick, res, now>>

\* C17: the two shared cells are written by the front-end only: a step of the
\* clock thread leaves both as they are, and a step that changes one of them
\* is a frame of the front-end, which leaves the clock thread where it is.
C17_FrontEndIsTheOnlyWriter ==
    [][/\ schedulerVars' # schedulerVars => bpm' = bpm /\ sharedmidiport' = sharedmidiport
       /\ bpm' # bpm \/ sharedmidiport' # sharedmidiport =>
             frames' = frames + 1 /\ schedulerVars' = schedulerVars]_vars

\* The front-end has written both cells while the clock thread is in the middle
\* of an iteration that read the earlier values; the cells hold what was written.
C17_Witness ==
    /\ pc \in {"check", "match", "gate", "send"}
    /\ frames = 2
    /\ bpm # InitialBpm
    /\ sharedmidiport # InitialPort
    /\ val # bpm
    /\ indval # sharedmidiport


\* C18: a connection held is the connection to the index recorded in oldval;
\* the pulse step is reached only with oldval equal to the selection read in
\* this iteration, so every pulse goes to the port of that selection.
C18_PulseGoesToSelectedPort ==
    /\ conn_out # None => conn_out = Some(oldval)
    /\ pc = "send" => indval = oldval /\ conn_out = Some(indval)
    /\ \A i \in 1 .. Len(log) : log[i].kind = "send" => log[i].port = indval

\* A pulse has just gone to a port that was selected in the dropdown, after
\* the connection to the initial port had been replaced.
C18_Witness ==
    /\ pc = "load_bpm"
    /\ log # <<>>
    /\ Last(log).kind = "send"
    /\ Last(log).port = indval
    /\ indval # InitialPort
    /\ conn_out = Some(indval)
    /\ \E i \in 1 .. Len(log) : log[i].kind = "close" /\ log[i].port = InitialPort


\* C19: no step takes the tempo cell from a non-zero value to 0.
C19_TempoNeverBackToZero == [][bpm # 0 => bpm' # 0]_vars

\* The tempo is at its smallest non-zero value and Space has been pressed
\* before: one unguarded ArrowDown or a tap rounding to 0 would stop the clock.
C19_Witness ==
    /\ bpm = 1
    /\ last_press # None

\* C20: the tempo cell is never negative and never above 300, whatever keys
\* were pressed together or in sequence, so a tempo that passes the test
\* val # 0 of line 70 is positive and gives a positive interval.
C20_TempoWithinZeroAndMax ==
    /\ bpm >= 0
    /\ bpm <= 300
    /\ bpm # 0 => bpm > 0 /\ Interval(bpm) > 0

\* The tempo is at the top of the range after a frame in which it was there
\* already: the frame's tap could not raise it.
C20_Witness ==
    /\ tap # None
    /\ Unwrap(tap).before = 300
    /\ bpm = 300
    /\ Interval(bpm) = 8333

====
